---- MODULE Spec2Model ----
(***************************************************************************)
(* A model of the backend of the NotebookLM clone (backend/app.js, the     *)
(* server that starts at line 229): the upload handler, the chat handler,  *)
(* the upload rate limiter and the session expiry sweep, as the processes  *)
(* of a single-threaded event loop.  A handler runs atomically from one    *)
(* await to the next; the sweep has no await and runs atomically.          *)
(***************************************************************************)
EXTENDS Integers, Sequences, FiniteSets, TLC

(***************************************************************************)
(* Bounds of the model.                                                    *)
(***************************************************************************)
\* Date.now() at process start, in milliseconds (any positive instant).
StartTime == 1
\* How many times the clock advances on its schedule in one behaviour.
MaxTicks == 2
\* The burst workload: upload requests that arrive, how many of them carry a
\* PDF that reaches pdfParse, and how many come from the second client.
BurstUploads == 7
BurstParsed == 1
OtherClientUploads == 1
\* The lifecycle workload: upload requests (each may reach pdfParse) and chat
\* requests that arrive.
LifecycleUploads == 2
LifecycleChats == 1
\* The expiry workload: upload and chat requests that arrive.
ExpiryUploads == 1
ExpiryChats == 2
\* Upload and chat handlers that can be in flight at the same time.
UploadSlots == 1
ChatSlots == 1
\* The race workload: upload requests (each may reach pdfParse), chat
\* requests, upload handlers in flight at the same time, and scheduled
\* advances of the clock.
RaceUploads == 2
RaceChats == 1
RaceSlots == 2
RaceTicks == 0
\* Calls of chunkText on its own: the longest text, the largest chunk size
\* (overlap ranges from -1 to the chunk size), and the loop iterations after
\* which a run of the loop is no longer followed.
MaxTextLen == 6
MaxChunkSize == 3
MaxIterations == 8
\* Calls of index.search on its own: the most vectors in an index, the largest
\* absolute value of a component, the largest k.
MaxVectors == 3
MaxComponent == 1
MaxK == 4
\* Calls of the index filter on its own: the most values in result.indices
\* (each from -1 to MaxVectors, on 0..MaxVectors chunks).
MaxReturned == 3

(***************************************************************************)
(* Program constants.                                                      *)
(***************************************************************************)
UPLOAD_RATE_LIMIT == 5
UPLOAD_WINDOW == 60 * 1000
SESSION_TIMEOUT == 24 * 60 * 60 * 1000
\* chunkText's default parameters
DEFAULT_CHUNK_SIZE == 512
DEFAULT_OVERLAP == 128
\* metadata: Math.floor(i / 2) + 1
CHUNKS_PER_PAGE == 2
\* const k = 3 in the chat handler
TOP_K == 3

(***************************************************************************)
(* JavaScript values of the request fields.  A string is a sequence of     *)
(* one-character strings, so that trim() and slice() are computed.         *)
(***************************************************************************)
Undefined == [type |-> "undefined"]
JSNumber(n) == [type |-> "number", val |-> n]
JSString(s) == [type |-> "string", val |-> s]

\* typeof x
TypeOf(x) == x.type

\* !x : undefined, the empty string, 0
Falsy(x) ==
    \/ x.type = "undefined"
    \/ x.type = "string" /\ x.val = <<>>
    \/ x.type = "number" /\ x.val = 0

Whitespace == {" ", "\n", "\t"}

SetMin(S) == CHOOSE x \in S : \A y \in S : x <= y

\* the first position at or after i that holds no whitespace (Len(s) + 1 if none)
RECURSIVE SkipForward(_, _)
SkipForward(s, i) ==
    IF i > Len(s) \/ s[i] \notin Whitespace THEN i ELSE SkipForward(s, i + 1)

\* the last position at or before i that holds no whitespace (0 if none)
RECURSIVE SkipBackward(_, _)
SkipBackward(s, i) ==
    IF i < 1 \/ s[i] \notin Whitespace THEN i ELSE SkipBackward(s, i - 1)

\* String.prototype.trim on a sequence of characters
Trim(s) == SubSeq(s, SkipForward(s, 1), SkipBackward(s, Len(s)))

\* String.prototype.slice(from, to), 0-based, end exclusive; a negative
\* offset counts from the end, and an offset beyond the string is its length
SliceOffset(len, n) ==
    IF n < 0 THEN (IF len + n < 0 THEN 0 ELSE len + n)
    ELSE IF n > len THEN len ELSE n

\* a variant of slice that ignores its end offset
SliceToEnd(s, from, to) == SubSeq(s, SliceOffset(Len(s), from) + 1, Len(s))

Slice(s, from, to) ==
    LET f == SliceOffset(Len(s), from)
        t == SliceOffset(Len(s), to)
    IN  IF f >= t THEN <<>> ELSE SubSeq(s, f + 1, t)

(***************************************************************************)
(* chunkText                                                               *)
(***************************************************************************)
RECURSIVE chunkLoop(_, _, _, _, _)
chunkLoop(text, chunkSize, overlap, i, chunks) ==
    IF i < Len(text)
    THEN chunkLoop(text, chunkSize, overlap, i + chunkSize - overlap,
                   Append(chunks, Slice(text, i, i + chunkSize)))
    ELSE chunks

chunkText(text, chunkSize, overlap) == chunkLoop(text, chunkSize, overlap, 0, <<>>)

(***************************************************************************)
(* The embedding provider.  output.data is an array of JavaScript numbers: *)
(* a finite number or NaN.  The provider is a function of its input text   *)
(* (EmbedOf); a faulty provider answers NaN components or rejects.         *)
(***************************************************************************)
Num(n) == [kind |-> "num", val |-> n]
NaN == [kind |-> "NaN", val |-> 0]

\* isNaN(num)
isNaN(x) == x.kind = "NaN"

Letters == <<"a", "b", "c", "d", "e">>
CharCode(c) == IF c \in Whitespace THEN 0 ELSE CHOOSE i \in 1..Len(Letters) : Letters[i] = c

\* embedder(text, { pooling: 'mean', normalize: true }) of a healthy provider
EmbedOf(text) ==
    << Num(CharCode(text[1]) - 3), Num(CharCode(text[Len(text)]) - 3) >>

\* what one embedder call can resolve with
EmbedderOutputs(text) == { EmbedOf(text), << NaN, Num(1) >> }

\* a variant of the validation that accepts every embedding
AnyEmbedding(embedding) == TRUE

\* embedding.every(num => typeof num === 'number' && !isNaN(num))
ValidEmbedding(embedding) == \A j \in 1..Len(embedding) : ~isNaN(embedding[j])

(***************************************************************************)
(* createInMemoryIndex: the index object and its search method.  A score   *)
(* dot / (normA * normB || 1) is kept exactly, as a sign and the fraction  *)
(* num/den of its square; a NaN operand makes the score NaN.               *)
(***************************************************************************)
createInMemoryIndex(embeddings) == [embeddings |-> embeddings]

RECURSIVE SumSeq(_)
SumSeq(s) == IF s = <<>> THEN 0 ELSE s[1] + SumSeq(Tail(s))

HasNaN(v) == \E j \in 1..Len(v) : isNaN(v[j])

\* emb.reduce((sum, val, j) => sum + val * queryVector[j], 0)
Dot(emb, queryVector) ==
    SumSeq([j \in 1..Len(emb) |-> emb[j].val * queryVector[j].val])

\* the square of Math.sqrt(v.reduce((sum, val) => sum + val * val, 0))
NormSq(v) == SumSeq([j \in 1..Len(v) |-> v[j].val * v[j].val])

Sign(n) == IF n > 0 THEN 1 ELSE IF n < 0 THEN 0 - 1 ELSE 0

\* a variant of the score without the || 1 guard: 0 / 0 is NaN
ScoreOfUnguarded(emb, queryVector, i) ==
    LET dot == Dot(emb, queryVector)
        nn  == NormSq(emb) * NormSq(queryVector)
    IN  [ nan   |-> HasNaN(emb) \/ HasNaN(queryVector) \/ nn = 0,
          sgn   |-> Sign(dot),
          num   |-> dot * dot,
          den   |-> nn,
          index |-> i ]

\* { score: dot / (normA * normB || 1), index: i }
ScoreOf(emb, queryVector, i) ==
    LET dot == Dot(emb, queryVector)
        nn  == NormSq(emb) * NormSq(queryVector)
    IN  [ nan   |-> HasNaN(emb) \/ HasNaN(queryVector),
          sgn   |-> Sign(dot),
          num   |-> dot * dot,
          den   |-> IF nn = 0 THEN 1 ELSE nn,
          index |-> i ]

\* a.score < b.score, both finite
ScoreLess(a, b) ==
    \/ a.sgn < b.sgn
    \/ a.sgn = 1 /\ b.sgn = 1 /\ a.num * b.den < b.num * a.den
    \/ a.sgn = 0 - 1 /\ b.sgn = 0 - 1 /\ a.num * b.den > b.num * a.den

\* a variant of the comparator that also puts a before b when the scores are
\* equal
SortsBeforeOrEqual(a, b) == ~a.nan /\ ~b.nan /\ ~ScoreLess(a, b)

\* the comparator (a, b) => b.score - a.score is negative: a sorts before b.
\* A NaN difference is treated as 0 by Array.prototype.sort.
SortsBefore(a, b) == ~a.nan /\ ~b.nan /\ ScoreLess(b, a)

\* Array.prototype.sort is stable: insert each element after every element
\* that it does not sort before.
RECURSIVE InsertSorted(_, _)
InsertSorted(sorted, x) ==
    IF sorted = <<>> THEN << x >>
    ELSE IF SortsBefore(x, sorted[Len(sorted)])
         THEN Append(InsertSorted(SubSeq(sorted, 1, Len(sorted) - 1), x), sorted[Len(sorted)])
         ELSE Append(sorted, x)

RECURSIVE SortScores(_)
SortScores(scores) ==
    IF scores = <<>> THEN <<>>
    ELSE InsertSorted(SortScores(SubSeq(scores, 1, Len(scores) - 1)), scores[Len(scores)])

\* index.search(queryVector, k).indices, 0-based as in the code
SearchIndices(index, queryVector, k) ==
    LET scores == [i \in 1..Len(index.embeddings) |->
                       ScoreOf(index.embeddings[i], queryVector, i - 1)]
        sorted == SortScores(scores)
        top    == SubSeq(sorted, 1, IF k < Len(sorted) THEN k ELSE Len(sorted))
    IN  [j \in 1..Len(top) |-> top[j].index]

(***************************************************************************)
(* Inputs of the requests.                                                 *)
(***************************************************************************)
\* req.ip
FirstClient == "10.0.0.1"
ClientIPs == {FirstClient, "10.0.0.2"}

MakeText(n) == [i \in 1..n |-> Letters[((i - 1) % Len(Letters)) + 1]]

\* req.file: undefined, or an uploaded file.  pdfParse resolves with the
\* file's text when the file parses and rejects when it does not.
UploadedFile(mimetype, parses, text) ==
    [type |-> "file", mimetype |-> mimetype, parses |-> parses, text |-> text]

Files ==
    { Undefined,
      UploadedFile("image/png", FALSE, <<>>),
      UploadedFile("application/pdf", FALSE, <<>>),
      UploadedFile("application/pdf", TRUE, <<>>),
      UploadedFile("application/pdf", TRUE, <<" ", "\n", " ">>),
      UploadedFile("application/pdf", TRUE, MakeText(5)),
      UploadedFile("application/pdf", TRUE, MakeText(769)) }

\* uuidv4(): the n-th identifier the generator hands out
Uuids == << <<"u", "1">>, <<"u", "2">>, <<"u", "3">>, <<"u", "4">> >>
UuidSet == {Uuids[n] : n \in 1..Len(Uuids)}

\* names every plain object inherits from Object.prototype
ObjectPrototypeKeys == { <<"c", "o", "n", "s", "t", "r", "u", "c", "t", "o", "r">> }

SessionIdInputs ==
    { Undefined, JSNumber(42), JSString(<<>>), JSString(<<" ", " ">>) }
        \cup {JSString(k) : k \in ObjectPrototypeKeys}
        \cup {JSString(Uuids[n]) : n \in 1..2}

ValidMessageInput == JSString(<<"a", "b">>)
InvalidMessageInputs ==
    { Undefined, JSNumber(42), JSString(<<>>), JSString(<<" ", "\n">>) }

\* req.body of the chat requests: every session_id with a valid message, every
\* invalid message with the session_id of a session, of an inherited name and
\* with a missing session_id
ChatInputs ==
    {[session_id |-> id, message |-> ValidMessageInput] : id \in SessionIdInputs}
        \cup {[session_id |-> id, message |-> m] :
                 id \in {JSString(Uuids[1]), Undefined}
                        \cup {JSString(k) : k \in ObjectPrototypeKeys},
                 m \in InvalidMessageInputs}

\* What arrives in one behaviour.  A burst of uploads meets the rate limiter
\* around the boundary of its window (the clock advances by UPLOAD_WINDOW - 1,
\* then 1, and so on); the lifecycle workload registers sessions, queries them
\* and lets them expire (the clock advances by SESSION_TIMEOUT, then 1, and so
\* on).  oversize tells whether files above the size limit of the upload
\* route arrive.
BurstWorkload ==
    [ name |-> "burst", uploads |-> BurstUploads, parsed |-> BurstParsed,
      others |-> OtherClientUploads, chats |-> 0, step |-> UPLOAD_WINDOW - 1,
      slots |-> UploadSlots, ticks |-> MaxTicks,
      oversize |-> FALSE ]
LifecycleWorkload ==
    [ name |-> "lifecycle", uploads |-> LifecycleUploads, parsed |-> LifecycleUploads,
      others |-> 0, chats |-> LifecycleChats, step |-> SESSION_TIMEOUT,
      slots |-> UploadSlots, ticks |-> MaxTicks,
      oversize |-> TRUE ]
Workloads == {BurstWorkload, LifecycleWorkload}

\* The workload under which the sweep timer is followed for ever: a session is
\* registered, queried and left alone.
ExpiryWorkload ==
    [ name |-> "expiry", uploads |-> ExpiryUploads, parsed |-> ExpiryUploads,
      others |-> 0, chats |-> ExpiryChats, step |-> SESSION_TIMEOUT,
      slots |-> UploadSlots, ticks |-> MaxTicks,
      oversize |-> TRUE ]

\* Requests that arrive together: upload handlers run side by side.
RaceWorkload ==
    [ name |-> "race", uploads |-> RaceUploads, parsed |-> RaceUploads,
      others |-> 0, chats |-> RaceChats, step |-> SESSION_TIMEOUT,
      slots |-> RaceSlots, ticks |-> RaceTicks,
      oversize |-> TRUE ]

(***************************************************************************)
(* State.                                                                  *)
(***************************************************************************)
VARIABLES
    workload,       \* what arrives in this behaviour
    now,            \* Date.now()
    ticks,          \* clock advances so far
    sessions,       \* const sessions = {}: own keys -> session
    uuidCount,      \* identifiers handed out by uuidv4
    uploadTracker,  \* const uploadTracker = new Map(): ip -> times
    embedder,       \* let embedder: 0 (undefined) or the pipeline's number
    pipelineCalls,  \* pipeline(...) calls made so far
    uploads,        \* upload handlers, by slot
    chats,          \* chat handlers, by slot
    response,       \* the response sent by the step just taken, if any
    nUploads,       \* upload requests arrived
    nParsed,        \* upload requests that reached pdfParse
    nChats,         \* chat requests arrived
    passLog,        \* history: ip -> arrival times of the uploads that passed
                    \*          checkUploadRateLimit
    lastQuery,      \* history: session id -> time of its registration or of
                    \*          the latest chat request that found it
    calc,           \* a call of chunkText, of index.search or of the index
                    \* filter of the chat handler on its own, with its locals
    home,           \* Home: selectedFile, sessionId, highlightPage
    pdfUpload,      \* PDFUpload: isUploading and the uploadToAPI calls in flight
    chatInterface,  \* ChatInterface: messages, isTyping
    pdfViewer       \* PDFViewer: numPages, pageNumber, loading, its document,
                    \* its timer and its effects

vars == << workload, now, ticks, sessions, uuidCount, uploadTracker, embedder, pipelineCalls,
           uploads, chats, response, nUploads, nParsed, nChats, passLog, lastQuery, calc,
           home, pdfUpload, chatInterface, pdfViewer >>

\* the variables of the page in the browser
frontend == << home, pdfUpload, chatInterface, pdfViewer >>

\* the variables of the server
server == << workload, now, ticks, sessions, uuidCount, uploadTracker, embedder, pipelineCalls,
             uploads, chats, response, nUploads, nParsed, nChats, passLog, lastQuery >>

\* no function is called on its own
NoCall == [op |-> "none"]

Idle == [pc |-> "idle"]
NoResponse == [pc |-> "none"]

\* null, as the state of Home holds it
Null == [type |-> "null"]

\* a component that is not rendered
Unmounted == [mounted |-> FALSE]

\* PDFUpload as it mounts: useState(false); calls is the number of
\* uploadToAPI calls made so far and pending holds the files of the calls in
\* flight, which outlive the component
MountedUpload(calls, pending) ==
    [mounted |-> TRUE, isUploading |-> FALSE, calls |-> calls, pending |-> pending]

\* the page as the browser first renders it: Home without a file shows
\* PDFUpload only
FrontendStart ==
    /\ home = [selectedFile |-> Null, sessionId |-> Null, highlightPage |-> Undefined]
    /\ pdfUpload = MountedUpload(0, << >>)
    /\ chatInterface = Unmounted
    /\ pdfViewer = Unmounted

\* res.status(status).json(body), with the model calls the request made
Done(route, req, status, body, calls) ==
    [ pc |-> "done", route |-> route, req |-> req, status |-> status, body |-> body,
      calls |-> calls ]

\* a handler that responded has returned; its slot is free again
FreeSlot(handlers) == SetMin({h \in DOMAIN handlers : handlers[h].pc = "idle"})
HasFreeSlot(handlers) == \E h \in DOMAIN handlers : handlers[h].pc = "idle"

NoCalls == [embed |-> 0, completion |-> 0]

Start(w) ==
    /\ workload = w
    /\ now = StartTime
    /\ ticks = 0
    /\ sessions = << >>
    /\ uuidCount = 0
    /\ uploadTracker = [ip \in ClientIPs |-> <<>>]
    /\ embedder = 0
    /\ pipelineCalls = 0
    /\ uploads = [h \in 1..RaceSlots |-> Idle]
    /\ chats = [c \in 1..ChatSlots |-> Idle]
    /\ response = NoResponse
    /\ nUploads = 0
    /\ nParsed = 0
    /\ nChats = 0
    /\ passLog = [ip \in ClientIPs |-> <<>>]
    /\ lastQuery = << >>

Init == calc = NoCall /\ FrontendStart /\ \E w \in Workloads : Start(w)

(***************************************************************************)
(* The clock.                                                              *)
(***************************************************************************)
\* the k-th advance of the clock
TickStep(w, k) == IF k % 2 = 1 THEN w.step ELSE 1

\* Time passes.  The clock never stops while a session is in the store.
Tick(d) ==
    /\ \/ ticks < workload.ticks /\ ticks' = ticks + 1 /\ d = TickStep(workload, ticks + 1)
       \/ /\ ticks >= workload.ticks /\ ticks' = ticks
          /\ d = SESSION_TIMEOUT
          /\ \E id \in DOMAIN sessions : now - sessions[id].lastAccessed <= SESSION_TIMEOUT
    /\ now' = now + d
    /\ response' = NoResponse
    /\ UNCHANGED << frontend, calc, workload, sessions, uuidCount, uploadTracker, embedder, pipelineCalls,
                    uploads, chats, nUploads, nParsed, nChats, passLog, lastQuery >>

(***************************************************************************)
(* cleanupExpiredSessions, run by setInterval.                             *)
(***************************************************************************)
\* a variant of the expiry test that expires a session at the timeout itself
ExpiredAtTimeout(session, t) == (t - session.lastAccessed) >= SESSION_TIMEOUT

\* a variant of the expiry test that reads the age of the process instead of
\* the session's lastAccessed
ExpiredSinceStart(session, t) == (t - StartTime) > SESSION_TIMEOUT

\* sessions[id] && sessions[id].lastAccessed && (now - lastAccessed) > SESSION_TIMEOUT
IsExpired(session, t) ==
    /\ session.lastAccessed # 0
    /\ (t - session.lastAccessed) > SESSION_TIMEOUT

\* a variant of the sweep that deletes nothing
KeepAll(store, t) == store

\* the store after Object.keys(sessions).forEach(... delete sessions[sessionId] ...)
SweptStore(store, t) ==
    [id \in {k \in DOMAIN store : ~IsExpired(store[k], t)} |-> store[id]]

cleanupExpiredSessions ==
    /\ sessions' = SweptStore(sessions, now)
    /\ response' = NoResponse
    /\ UNCHANGED << frontend, calc, workload, now, ticks, uuidCount, uploadTracker, embedder, pipelineCalls,
                    uploads, chats, nUploads, nParsed, nChats, passLog, lastQuery >>

(***************************************************************************)
(* checkUploadRateLimit                                                    *)
(***************************************************************************)
\* userUploads.filter(time => now - time < UPLOAD_WINDOW)
RecentUploads(userUploads, t) ==
    SelectSeq(userUploads, LAMBDA time : t - time < UPLOAD_WINDOW)

\* a variant of the limit test that lets one more upload pass
AllowsAtLimit(recentUploads) == ~(Len(recentUploads) > UPLOAD_RATE_LIMIT)

\* the return value
RateLimitAllows(recentUploads) == ~(Len(recentUploads) >= UPLOAD_RATE_LIMIT)

\* a variant of the call that also records the uploads it turns away
TrackerCountingAll(tracker, ip, t) ==
    [tracker EXCEPT ![ip] = Append(RecentUploads(tracker[ip], t), t)]

\* uploadTracker after the call
TrackerAfter(tracker, ip, t) ==
    LET recentUploads == RecentUploads(tracker[ip], t)
    IN  IF RateLimitAllows(recentUploads)
        THEN [tracker EXCEPT ![ip] = Append(recentUploads, t)]
        ELSE tracker

(***************************************************************************)
(* getEmbedder: if (!embedder) { embedder = await pipeline(...) }          *)
(***************************************************************************)
\* the call finds the handle missing and starts a pipeline
NeedsPipeline == embedder = 0

(***************************************************************************)
(* POST /upload                                                            *)
(***************************************************************************)
PDF == "application/pdf"

\* chunks.map((_, i) => ({ page: Math.floor(i / 2) + 1 }))
Metadata(chunks) ==
    [i \in 1..Len(chunks) |-> [page |-> ((i - 1) \div CHUNKS_PER_PAGE) + 1]]

\* the object stored under sessions[sessionId]
NewSession(chunks, embeddings, t) ==
    [ index        |-> createInMemoryIndex(embeddings),
      chunks       |-> chunks,
      metadata     |-> Metadata(chunks),
      lastAccessed |-> t ]

\* a variant of Promise.all that yields the values in settling order
SettlingOrder(settled) == [i \in 1..Len(settled) |-> settled[i].value]

\* Promise.all: the fulfilled values in the order of the input promises,
\* whatever the order in which they settled.  settled holds, in settling
\* order, the position and the value of each fulfilled promise.
PromiseAll(settled) ==
    [i \in 1..Len(settled) |->
        (CHOOSE r \in {settled[j] : j \in 1..Len(settled)} : r.position = i).value]

\* the handler in slot h goes on as next, or responds and returns
UploadGoes(h, next) ==
    /\ uploads' = [uploads EXCEPT ![h] = IF next.pc = "done" THEN Idle ELSE next]
    /\ response' = IF next.pc = "done" THEN next ELSE NoResponse

\* the handler up to its first await: rate limit, req.file, mimetype
UploadRequest(h, ip, file) ==
    LET allowed == RateLimitAllows(RecentUploads(uploadTracker[ip], now))
        parsed  == allowed /\ ~Falsy(file) /\ file.mimetype = PDF
        req     == [ip |-> ip]
    IN  /\ HasFreeSlot(uploads) /\ h = FreeSlot(uploads)
        /\ h <= workload.slots    \* handlers the workload lets run side by side
        /\ nUploads < workload.uploads
        /\ parsed => nParsed < workload.parsed
        /\ ip # FirstClient => Len(passLog[ip]) < workload.others
        /\ nUploads' = nUploads + 1
        /\ nParsed' = IF parsed THEN nParsed + 1 ELSE nParsed
        /\ uploadTracker' = TrackerAfter(uploadTracker, ip, now)
        /\ passLog' = IF allowed THEN [passLog EXCEPT ![ip] = Append(@, now)] ELSE passLog
        /\ UploadGoes(h,
              IF ~allowed
              THEN Done("/upload", req, 429,
                        [error |-> "Too many uploads. Please wait before uploading again."],
                        NoCalls)
              ELSE IF Falsy(file)
              THEN Done("/upload", req, 400, [error |-> "No file uploaded"], NoCalls)
              ELSE IF file.mimetype # PDF
              THEN Done("/upload", req, 400, [error |-> "Only PDF files are allowed"], NoCalls)
              ELSE [pc |-> "pdfParse", req |-> req, file |-> file])
        /\ UNCHANGED << frontend, calc, workload, now, ticks, sessions, uuidCount, embedder, pipelineCalls,
                        chats, nChats, lastQuery >>

\* upload.single('file') with limits.fileSize: the file of the request is
\* larger than the limit.  multer passes a MulterError to next(err), the
\* handler does not run, and since the application installs no error
\* middleware the default error handler of express answers: status 500, an
\* HTML page.
UploadLimitExceeded(ip) ==
    /\ workload.oversize
    /\ nUploads < workload.uploads
    /\ nUploads' = nUploads + 1
    /\ response' = Done("/upload", [ip |-> ip, oversize |-> TRUE], 500,
                        [html |-> "MulterError: File too large"], NoCalls)
    /\ UNCHANGED << frontend, calc, workload, now, ticks, sessions, uuidCount, uploadTracker, embedder,
                    pipelineCalls, uploads, chats, nParsed, nChats, passLog, lastQuery >>

\* the handler waiting for the embedder calls of all its chunks
Embedding(u, chunks) ==
    [ pc |-> "embed", req |-> u.req, chunks |-> chunks, settled |-> <<>>,
      calls |-> [embed |-> Len(chunks), completion |-> 0] ]

\* pdfParse settles: the text check, chunkText, getEmbedder
PdfParseSettle(h) ==
    LET u      == uploads[h]
        text   == u.file.text
        chunks == chunkText(text, DEFAULT_CHUNK_SIZE, DEFAULT_OVERLAP)
        starts == u.file.parses /\ ~Falsy(JSString(text)) /\ Len(Trim(text)) # 0
                     /\ NeedsPipeline
    IN  /\ u.pc = "pdfParse"
        /\ pipelineCalls' = IF starts THEN pipelineCalls + 1 ELSE pipelineCalls
        /\ UploadGoes(h,
              IF ~u.file.parses
              THEN Done("/upload", u.req, 500, [error |-> "Invalid PDF structure"], NoCalls)
              ELSE IF Falsy(JSString(text)) \/ Len(Trim(text)) = 0
              THEN Done("/upload", u.req, 500,
                        [error |-> "No extractable text found in PDF"], NoCalls)
              ELSE IF NeedsPipeline
              THEN [ pc |-> "getEmbedder", req |-> u.req, chunks |-> chunks,
                     pipeline |-> pipelineCalls + 1 ]
              ELSE Embedding(u, chunks))
        /\ UNCHANGED << frontend, calc, workload, now, ticks, sessions, uuidCount, uploadTracker, embedder,
                        chats, nUploads, nParsed, nChats, passLog, lastQuery >>

\* the pipeline of getEmbedder settles
UploadPipelineSettle(h, fulfilled) ==
    LET u == uploads[h]
    IN  /\ u.pc = "getEmbedder"
        /\ embedder' = IF fulfilled THEN u.pipeline ELSE embedder
        /\ UploadGoes(h,
              IF fulfilled
              THEN Embedding(u, u.chunks)
              ELSE Done("/upload", u.req, 500, [error |-> "Could not load the model"],
                        NoCalls))
        /\ UNCHANGED << frontend, calc, workload, now, ticks, sessions, uuidCount, uploadTracker, pipelineCalls,
                        chats, nUploads, nParsed, nChats, passLog, lastQuery >>

\* chunks whose embedder call has not settled
PendingChunks(u) ==
    (1..Len(u.chunks)) \ {u.settled[j].position : j \in 1..Len(u.settled)}

\* the embedder call of chunk i is fulfilled with output.data = output; with
\* the last one Promise.all is fulfilled and the session is registered
UploadEmbedResolve(h, i, output) ==
    LET u         == uploads[h]
        settled   == Append(u.settled, [position |-> i, value |-> output])
        completes == ValidEmbedding(output) /\ Len(settled) = Len(u.chunks)
        sessionId == Uuids[uuidCount + 1]
    IN  /\ u.pc = "embed"
        /\ i \in PendingChunks(u)
        /\ output \in EmbedderOutputs(u.chunks[i])
        /\ uuidCount' = IF completes THEN uuidCount + 1 ELSE uuidCount
        /\ sessions' = IF completes
                       THEN sessions @@
                               (sessionId :> NewSession(u.chunks, PromiseAll(settled), now))
                       ELSE sessions
        /\ lastQuery' = IF completes THEN lastQuery @@ (sessionId :> now) ELSE lastQuery
        /\ UploadGoes(h,
              IF ~ValidEmbedding(output)
              THEN Done("/upload", u.req, 500, [error |-> "Invalid embedding for chunk"],
                        u.calls)
              ELSE IF ~completes
              THEN [u EXCEPT !.settled = settled]
              ELSE Done("/upload", u.req, 200,
                        [session_id |-> sessionId, message |-> "PDF uploaded and indexed"],
                        u.calls))
        /\ UNCHANGED << frontend, calc, workload, now, ticks, uploadTracker, embedder, pipelineCalls,
                        chats, nUploads, nParsed, nChats, passLog >>

\* the embedder call of chunk i is rejected
UploadEmbedReject(h, i) ==
    LET u == uploads[h]
    IN  /\ u.pc = "embed"
        /\ i \in PendingChunks(u)
        /\ UploadGoes(h, Done("/upload", u.req, 500, [error |-> "Embedder call failed"],
                              u.calls))
        /\ UNCHANGED << frontend, calc, workload, now, ticks, sessions, uuidCount, uploadTracker, embedder,
                        pipelineCalls, chats, nUploads, nParsed, nChats, passLog, lastQuery >>

\* one embedder call of an upload settles
UploadEmbedSettle(h) ==
    /\ uploads[h].pc = "embed"
    /\ \E i \in PendingChunks(uploads[h]) :
          \/ \E output \in EmbedderOutputs(uploads[h].chunks[i]) :
                UploadEmbedResolve(h, i, output)
          \/ UploadEmbedReject(h, i)

(***************************************************************************)
(* POST /chat                                                              *)
(***************************************************************************)
\* !(!session_id || typeof session_id !== 'string')
ValidSessionId(session_id) ==
    ~(Falsy(session_id) \/ TypeOf(session_id) # "string")

\* !(!message || typeof message !== 'string' || message.trim().length === 0)
ValidMessage(message) ==
    ~(Falsy(message) \/ TypeOf(message) # "string" \/ Len(Trim(message.val)) = 0)

\* a variant of the lookup that finds nothing
LookupNothing(store, key) == Undefined

\* sessions[session_id] on the plain object: an own key gives the session,
\* a name inherited from Object.prototype gives that member, anything else
\* undefined
Lookup(store, key) ==
    IF key \in DOMAIN store THEN [type |-> "object", own |-> TRUE]
    ELSE IF key \in ObjectPrototypeKeys THEN [type |-> "function", own |-> FALSE]
    ELSE Undefined

\* a variant of the touch that leaves lastAccessed as it was
NoTouch(store, key, t) == store

\* a variant of the touch that also empties the citation metadata
TouchDroppingMetadata(store, key, t) ==
    IF key \in DOMAIN store
    THEN [store EXCEPT ![key].lastAccessed = t, ![key].metadata = <<>>]
    ELSE store

\* session.lastAccessed = Date.now()
Touch(store, key, t) ==
    IF key \in DOMAIN store THEN [store EXCEPT ![key].lastAccessed = t] ELSE store

\* const { index, chunks, metadata } = session
Destructure(store, key) ==
    IF key \in DOMAIN store
    THEN [ index |-> store[key].index, chunks |-> store[key].chunks,
           metadata |-> store[key].metadata ]
    ELSE [ index |-> Undefined, chunks |-> Undefined, metadata |-> Undefined ]

\* result.indices || []
ResultIndices(result) == IF "indices" \in DOMAIN result THEN result.indices ELSE <<>>

\* arr[i] of a JavaScript array of strings: undefined outside 0..length-1
ReadAt(arr, i) == IF i + 1 \in DOMAIN arr THEN JSString(arr[i + 1]) ELSE Undefined

\* a variant of the filter that drops the first chunk as well
PositiveIndices(indices, chunks) ==
    SelectSeq(indices, LAMBDA i : i > 0 /\ i < Len(chunks))

\* a variant of the filter that only tests the upper end of the range
BelowLength(indices, chunks) == SelectSeq(indices, LAMBDA i : i < Len(chunks))

\* indices.filter(i => i >= 0 && i < chunks.length)
ValidIndices(indices, chunks) ==
    SelectSeq(indices, LAMBDA i : i >= 0 /\ i < Len(chunks))

\* a variant of the citations that reads metadata at the rank instead of at
\* the chunk index
CitationsByRank(validIndices, metadata) ==
    [j \in 1..Len(validIndices) |-> metadata[j].page]

\* validIndices.map(i => metadata[i]?.page || 1), or []
Citations(validIndices, metadata) ==
    [j \in 1..Len(validIndices) |->
        IF validIndices[j] + 1 \in DOMAIN metadata /\ metadata[validIndices[j] + 1].page # 0
        THEN metadata[validIndices[j] + 1].page
        ELSE 1]

NoRelevantContext == "No relevant context found"

\* validIndices.length > 0 ? validIndices.map(i => chunks[i]).join('\n') : '...',
\* as the list of the values that are joined
Context(validIndices, chunks) ==
    IF Len(validIndices) > 0
    THEN [j \in 1..Len(validIndices) |-> ReadAt(chunks, validIndices[j])]
    ELSE NoRelevantContext

\* the handler in slot c goes on as next, or responds and returns
ChatGoes(c, next) ==
    /\ chats' = [chats EXCEPT ![c] = IF next.pc = "done" THEN Idle ELSE next]
    /\ response' = IF next.pc = "done" THEN next ELSE NoResponse

\* the handler waiting for the embedder call of the message
EmbeddingQuery(h) ==
    [ pc |-> "embedQuery", req |-> h.req, session |-> h.session,
      calls |-> [embed |-> 1, completion |-> 0] ]

\* the handler up to its first await: validation, lookup, touch, getEmbedder
ChatRequest(c, session_id, message) ==
    LET valid   == ValidSessionId(session_id) /\ ValidMessage(message)
        key     == session_id.val
        session == Lookup(sessions, key)
        found   == valid /\ ~Falsy(session)
        req     == [ session_id |-> session_id, message |-> message,
                     known |-> TypeOf(session_id) = "string" /\ key \in DOMAIN sessions,
                     idle  |-> IF found /\ session.own
                               THEN now - sessions[key].lastAccessed ELSE 0 ]
        h       == [ req |-> req, session |-> Destructure(sessions, key) ]
    IN  /\ HasFreeSlot(chats) /\ c = FreeSlot(chats)
        /\ nChats < workload.chats
        /\ nChats' = nChats + 1
        /\ sessions' = IF found THEN Touch(sessions, key, now) ELSE sessions
        /\ lastQuery' = IF found /\ session.own
                        THEN [lastQuery EXCEPT ![key] = now] ELSE lastQuery
        /\ pipelineCalls' = IF found /\ NeedsPipeline
                            THEN pipelineCalls + 1 ELSE pipelineCalls
        /\ ChatGoes(c,
              IF ~ValidSessionId(session_id)
              THEN Done("/chat", req, 400, [error |-> "Valid session_id is required"],
                        NoCalls)
              ELSE IF ~ValidMessage(message)
              THEN Done("/chat", req, 400, [error |-> "Valid message is required"], NoCalls)
              ELSE IF Falsy(session)
              THEN Done("/chat", req, 404, [error |-> "Session not found"], NoCalls)
              ELSE IF NeedsPipeline
              THEN [ pc |-> "getEmbedder", req |-> req, session |-> h.session,
                     pipeline |-> pipelineCalls + 1 ]
              ELSE EmbeddingQuery(h))
        /\ UNCHANGED << frontend, calc, workload, now, ticks, uuidCount, uploadTracker, embedder, uploads,
                        nUploads, nParsed, passLog >>

\* the pipeline of getEmbedder settles
ChatPipelineSettle(c, fulfilled) ==
    LET h == chats[c]
    IN  /\ h.pc = "getEmbedder"
        /\ embedder' = IF fulfilled THEN h.pipeline ELSE embedder
        /\ ChatGoes(c,
              IF fulfilled
              THEN EmbeddingQuery(h)
              ELSE Done("/chat", h.req, 500, [error |-> "Could not load the model"],
                        NoCalls))
        /\ UNCHANGED << frontend, calc, workload, now, ticks, sessions, uuidCount, uploadTracker, pipelineCalls,
                        uploads, nUploads, nParsed, nChats, passLog, lastQuery >>

\* the embedder call of the message is fulfilled: search, context, citations,
\* and the completion call
QueryEmbedResolve(c, output) ==
    LET h            == chats[c]
        result       == [indices |-> SearchIndices(h.session.index, output, TOP_K)]
        indices      == ResultIndices(result)
        validIndices == ValidIndices(indices, h.session.chunks)
    IN  /\ h.pc = "embedQuery"
        /\ output \in EmbedderOutputs(h.req.message.val)
        /\ ChatGoes(c,
              IF h.session.index = Undefined
              THEN Done("/chat", h.req, 500,
                        [error |-> "Cannot read properties of undefined (reading 'search')"],
                        h.calls)
              ELSE [ pc |-> "completion", req |-> h.req,
                     chunks |-> h.session.chunks,
                     queryVector |-> output,
                     validIndices |-> validIndices,
                     context |-> Context(validIndices, h.session.chunks),
                     citations |-> Citations(validIndices, h.session.metadata),
                     calls |-> [embed |-> 1, completion |-> 1] ])
        /\ UNCHANGED << frontend, calc, workload, now, ticks, sessions, uuidCount, uploadTracker, embedder,
                        pipelineCalls, uploads, nUploads, nParsed, nChats, passLog,
                        lastQuery >>

\* a variant of the rejection that calls the embedder once more
QueryEmbedRetry(c) ==
    LET h == chats[c]
    IN  /\ h.pc = "embedQuery"
        /\ h.calls.embed < 2
        /\ chats' = [chats EXCEPT ![c].calls.embed = @ + 1]
        /\ response' = NoResponse
        /\ UNCHANGED << frontend, calc, workload, now, ticks, sessions, uuidCount, uploadTracker, embedder,
                        pipelineCalls, uploads, nUploads, nParsed, nChats, passLog,
                        lastQuery >>

\* the embedder call of the message is rejected
QueryEmbedReject(c) ==
    LET h == chats[c]
    IN  /\ h.pc = "embedQuery"
        /\ ChatGoes(c, Done("/chat", h.req, 500, [error |-> "Embedder call failed"],
                            h.calls))
        /\ UNCHANGED << frontend, calc, workload, now, ticks, sessions, uuidCount, uploadTracker, embedder,
                        pipelineCalls, uploads, nUploads, nParsed, nChats, passLog,
                        lastQuery >>

\* the embedder call of a chat settles
QueryEmbedSettle(c) ==
    /\ chats[c].pc = "embedQuery"
    /\ \/ \E output \in EmbedderOutputs(chats[c].req.message.val) :
             QueryEmbedResolve(c, output)
       \/ QueryEmbedReject(c)

\* openai.chat.completions.create settles
CompletionSettle(c, fulfilled) ==
    LET h == chats[c]
    IN  /\ h.pc = "completion"
        /\ ChatGoes(c,
              IF fulfilled
              THEN Done("/chat", h.req, 200,
                        [response |-> "answer", citations |-> h.citations], h.calls)
              ELSE Done("/chat", h.req, 500, [error |-> "Completion call failed"],
                        h.calls))
        /\ UNCHANGED << frontend, calc, workload, now, ticks, sessions, uuidCount, uploadTracker, embedder,
                        pipelineCalls, uploads, nUploads, nParsed, nChats, passLog,
                        lastQuery >>

(***************************************************************************)
(* The event loop.                                                         *)
(***************************************************************************)
Next ==
    \/ \E d \in {1, UPLOAD_WINDOW - 1, SESSION_TIMEOUT} : Tick(d)
    \/ cleanupExpiredSessions
    \/ \E h \in 1..RaceSlots, ip \in ClientIPs, file \in Files : UploadRequest(h, ip, file)
    \/ \E ip \in ClientIPs : UploadLimitExceeded(ip)
    \/ \E h \in 1..RaceSlots : PdfParseSettle(h)
    \/ \E h \in 1..RaceSlots, fulfilled \in BOOLEAN : UploadPipelineSettle(h, fulfilled)
    \/ \E h \in 1..RaceSlots : UploadEmbedSettle(h)
    \/ \E c \in 1..ChatSlots, body \in ChatInputs :
           ChatRequest(c, body.session_id, body.message)
    \/ \E c \in 1..ChatSlots, fulfilled \in BOOLEAN : ChatPipelineSettle(c, fulfilled)
    \/ \E c \in 1..ChatSlots : QueryEmbedSettle(c)
    \/ \E c \in 1..ChatSlots, fulfilled \in BOOLEAN : CompletionSettle(c, fulfilled)

Spec == Init /\ [][Next]_vars

(***************************************************************************)
(* The sweep timer keeps firing and time keeps passing: setInterval runs   *)
(* cleanupExpiredSessions every hour for as long as the process lives.     *)
(***************************************************************************)
LiveInit == Start(ExpiryWorkload) /\ calc = NoCall /\ FrontendStart

LiveSpec ==
    /\ LiveInit
    /\ [][Next]_vars
    /\ WF_vars(cleanupExpiredSessions)
    /\ WF_vars(\E d \in {1, UPLOAD_WINDOW - 1, SESSION_TIMEOUT} : Tick(d))

(***************************************************************************)
(* chunkText, index.search and the index filter called on their own, on    *)
(* arguments the server does not pass: chunkText as its loop, one          *)
(* iteration per step.                                                     *)
(***************************************************************************)
ChunkCalls ==
    { [ op |-> "chunkText", text |-> MakeText(n), chunkSize |-> size, overlap |-> o,
        i |-> 0, chunks |-> <<>>, pc |-> "loop" ] :
        n \in 0..MaxTextLen, size \in 1..MaxChunkSize, o \in (0 - 1)..MaxChunkSize }

\* for (...; i < text.length; i += chunkSize - overlap) chunks.push(text.slice(i, i + chunkSize))
ChunkIterate ==
    /\ calc.op = "chunkText" /\ calc.pc = "loop"
    /\ calc.i < Len(calc.text)
    /\ Len(calc.chunks) < MaxIterations
    /\ calc' = [calc EXCEPT
                   !.chunks = Append(@, Slice(calc.text, calc.i, calc.i + calc.chunkSize)),
                   !.i = calc.i + calc.chunkSize - calc.overlap]
    /\ UNCHANGED << server, frontend >>

\* return chunks
ChunkReturn ==
    /\ calc.op = "chunkText" /\ calc.pc = "loop"
    /\ ~(calc.i < Len(calc.text))
    /\ calc' = [calc EXCEPT !.pc = "returned"]
    /\ UNCHANGED << server, frontend >>

\* finite vectors of two components
Vectors ==
    { << Num(x), Num(y) >> :
        x \in (0 - MaxComponent)..MaxComponent, y \in (0 - MaxComponent)..MaxComponent }

SearchCalls ==
    { [ op |-> "search", embeddings |-> e, queryVector |-> q, k |-> k,
        pc |-> "called", indices |-> <<>> ] :
        e \in UNION {[1..n -> Vectors] : n \in 0..MaxVectors},
        q \in Vectors, k \in 1..MaxK }

\* createInMemoryIndex(embeddings).search(queryVector, k).indices
SearchCall ==
    /\ calc.op = "search" /\ calc.pc = "called"
    /\ calc' = [calc EXCEPT
                   !.pc = "returned",
                   !.indices = SearchIndices(createInMemoryIndex(calc.embeddings),
                                             calc.queryVector, calc.k)]
    /\ UNCHANGED << server, frontend >>

\* the chunks of a document of n chunks
ChunkList(n) == [i \in 1..n |-> << Letters[i] >>]

\* what a search may hand the chat handler: no indices, or any values
FilterCalls ==
    { [ op |-> "filter", result |-> r, chunks |-> ChunkList(n), pc |-> "called",
        validIndices |-> <<>>, context |-> <<>>, citations |-> <<>> ] :
        r \in {[distances |-> <<>>]}
                 \cup {[indices |-> idx] :
                         idx \in UNION {[1..m -> (0 - 1)..MaxVectors] : m \in 0..MaxReturned}},
        n \in 0..MaxVectors }

\* the chat handler from result.indices to citations
FilterCall ==
    LET indices      == ResultIndices(calc.result)
        validIndices == ValidIndices(indices, calc.chunks)
    IN  /\ calc.op = "filter" /\ calc.pc = "called"
        /\ calc' = [calc EXCEPT
                       !.pc = "returned",
                       !.validIndices = validIndices,
                       !.context = Context(validIndices, calc.chunks),
                       !.citations = Citations(validIndices, Metadata(calc.chunks))]
        /\ UNCHANGED << server, frontend >>

Calls == ChunkCalls \cup SearchCalls \cup FilterCalls

FunctionsInit ==
    /\ Start(LifecycleWorkload)
    /\ calc \in Calls
    /\ FrontendStart

FunctionsNext ==
    \/ ChunkIterate
    \/ ChunkReturn
    \/ SearchCall
    \/ FilterCall

FunctionsSpec == FunctionsInit /\ [][FunctionsNext]_vars

(***************************************************************************)
(* The server under requests that arrive together.                         *)
(***************************************************************************)
RaceInit == Start(RaceWorkload) /\ calc = NoCall /\ FrontendStart

RaceSpec == RaceInit /\ [][Next]_vars

(***************************************************************************)
(* The page in the browser: Home shows PDFUpload, or PDFViewer and         *)
(* ChatInterface once a file is selected.  An event handler, a settled     *)
(* fetch or a timer callback runs to its end in one step, with the render  *)
(* it causes; the effects of a render run in a step of their own, before   *)
(* the next event is handled.  The server answers are inputs here.         *)
(***************************************************************************)
MaxDrops == 3
MaxSends == 2
MaxPages == 3

\* a File the user drops or picks, with what react-pdf finds in it
DroppedFile(name, type, numPages, loads) ==
    [name |-> name, type |-> type, numPages |-> numPages, loads |-> loads]

DroppedFiles ==
    { DroppedFile("a.pdf", PDF, MaxPages, TRUE),
      DroppedFile("b.pdf", PDF, 1, TRUE),
      DroppedFile("c.pdf", PDF, 0, FALSE),
      DroppedFile("d.png", "image/png", 0, FALSE) }

\* value.name of a JavaScript value: undefined unless value is an object
\* with that property
Get(value, name) ==
    IF value.type = "object" /\ name \in DOMAIN value.val THEN value.val[name] ELSE Undefined

\* PDFUpload after Home has stopped rendering it
UnmountedUpload(calls, pending) ==
    [mounted |-> FALSE, isUploading |-> FALSE, calls |-> calls, pending |-> pending]

\* PDFViewer as it mounts: useState(0), useState(1), useState(true); the
\* Document is rendered only when loading is false, the effects have yet to
\* run.  timeoutRaised, navigatedTo and replaced are history: whether the
\* timeout error was shown, the page the latest press of next or previous
\* moved to (0 after anything else that sets the page), and whether the
\* viewer was handed a second file.
MountedViewer ==
    [ mounted |-> TRUE, numPages |-> 0, pageNumber |-> 1, loading |-> TRUE,
      document |-> "unmounted", timer |-> FALSE, effects |-> TRUE,
      timeoutRaised |-> FALSE, navigatedTo |-> 0, replaced |-> FALSE ]

\* ChatInterface as it mounts, after the effect that greets: the greeting
\* has no citations.  cited and clicked are history: the citations array of
\* the server answer a message was built from, and the message and button of
\* the latest click.
NoClick == [m |-> 0, j |-> 0]
Greeting == [type |-> "assistant", citations |-> << >>, cited |-> << >>]
MountedChat ==
    [ mounted |-> TRUE, messages |-> << Greeting >>, isTyping |-> FALSE, sends |-> 0,
      clicked |-> NoClick ]

\* PDFViewer is rendered with another file: a Document that is rendered
\* loads the new file
FileReplaced(viewer) ==
    [viewer EXCEPT !.document = IF @ = "unmounted" THEN @ ELSE "loading",
                   !.navigatedTo = 0,
                   !.replaced = TRUE]

\* whether a drop reaches onDrop.  The root of the dropzone has
\* pointer-events-none while isUploading, which keeps the pointer away (drag
\* and drop, the click that opens the file dialog); Enter or Space on the
\* focused root still opens the dialog.
DropDelivered(isUploading, via) == via = "keyboard" \/ ~isUploading

\* onDrop: a PDF starts an uploadToAPI call, anything else is refused
onDrop(file, via) ==
    /\ pdfUpload.mounted
    /\ pdfUpload.calls < MaxDrops
    /\ DropDelivered(pdfUpload.isUploading, via)
    /\ pdfUpload' = IF file.type = PDF
                    THEN [pdfUpload EXCEPT !.isUploading = TRUE,
                                           !.calls = @ + 1,
                                           !.pending = @ @@ ((pdfUpload.calls + 1) :> file)]
                    ELSE pdfUpload
    /\ UNCHANGED << server, calc, home, chatInterface, pdfViewer >>

\* pending without the call id
Settled(pending, id) == [i \in DOMAIN pending \ {id} |-> pending[i]]

\* the fetch of uploadToAPI settles: with a session id onDrop goes on to
\* onFileSelect (handleFileSelect of Home), without one to the catch block;
\* then setIsUploading(false)
UploadFetchSettle(id, ok) ==
    /\ id \in DOMAIN pdfUpload.pending
    /\ LET file    == pdfUpload.pending[id]
           pending == Settled(pdfUpload.pending, id)
       IN  IF ok
           THEN /\ home' = [home EXCEPT !.selectedFile = file,
                                        !.sessionId = JSString(Uuids[id])]
                /\ pdfUpload' = UnmountedUpload(pdfUpload.calls, pending)
                /\ chatInterface' = IF chatInterface.mounted THEN chatInterface
                                    ELSE MountedChat
                /\ pdfViewer' = IF pdfViewer.mounted THEN FileReplaced(pdfViewer)
                                ELSE MountedViewer
           ELSE /\ pdfUpload' = [pdfUpload EXCEPT !.isUploading = FALSE,
                                                  !.pending = pending]
                /\ UNCHANGED << home, chatInterface, pdfViewer >>
    /\ UNCHANGED << server, calc >>

\* handleClearFile of Home: the New Document button
handleClearFile ==
    /\ home.selectedFile # Null
    /\ home' = [selectedFile |-> Null, sessionId |-> Null, highlightPage |-> Undefined]
    /\ pdfUpload' = MountedUpload(pdfUpload.calls, pdfUpload.pending)
    /\ chatInterface' = Unmounted
    /\ pdfViewer' = Unmounted
    /\ UNCHANGED << server, calc >>

\* what the fetch of callChatAPI can settle with: a 200 answer of the server
\* with its citations, page numbers as Citations computes them, or a failure
ChatFetchResults ==
    { [ok |-> FALSE] }
        \cup { [ok |-> TRUE,
                data |-> [response |-> "answer",
                          citations |-> [j \in 1..Len(indices) |->
                                            JSNumber(Citations(indices, Metadata(chunks))[j])]]] :
                 chunks \in {chunkText(MakeText(769), DEFAULT_CHUNK_SIZE, DEFAULT_OVERLAP)},
                 indices \in {<< 0 >>, << 0, 2, 1 >>} }

\* handleSendMessage up to its await; the input is disabled while isTyping
handleSendMessage ==
    /\ chatInterface.mounted
    /\ ~chatInterface.isTyping
    /\ home.sessionId # Null
    /\ chatInterface.sends < MaxSends
    /\ chatInterface' = [chatInterface EXCEPT
                            !.messages = Append(@, [type |-> "user", citations |-> << >>,
                                                   cited |-> << >>]),
                            !.isTyping = TRUE,
                            !.sends = @ + 1]
    /\ UNCHANGED << server, calc, home, pdfUpload, pdfViewer >>

\* const citations = data.citations || []
ParsedCitations(data) == data.citations

\* the fetch of callChatAPI settles: the answer with its citations, or the
\* apology without any
ChatFetchSettle(result) ==
    /\ chatInterface.mounted
    /\ chatInterface.isTyping
    /\ chatInterface' = [chatInterface EXCEPT
                            !.messages =
                                Append(@, [type |-> "assistant",
                                           citations |-> IF result.ok
                                                         THEN ParsedCitations(result.data)
                                                         ELSE << >>,
                                           cited |-> IF result.ok
                                                     THEN result.data.citations
                                                     ELSE << >>]),
                            !.isTyping = FALSE]
    /\ UNCHANGED << server, calc, home, pdfUpload, pdfViewer >>

\* the text of a citation button: Page {citation.page}
CitationLabel(citation) == << "Page", Get(citation, "page") >>

\* handleCitationClick of Home: setHighlightPage(page); the effects of
\* PDFViewer run when the prop has changed
handleCitationClick(page) ==
    /\ home' = [home EXCEPT !.highlightPage = page]
    /\ pdfViewer' = IF pdfViewer.mounted /\ page # home.highlightPage
                    THEN [pdfViewer EXCEPT !.effects = TRUE, !.navigatedTo = 0]
                    ELSE pdfViewer

\* a click on citation button j of message m: onCitationClick(citation.page)
CitationButtonClick(m, j) ==
    /\ chatInterface.mounted
    /\ m \in DOMAIN chatInterface.messages
    /\ j \in DOMAIN chatInterface.messages[m].citations
    /\ pdfViewer.mounted => ~pdfViewer.effects
    /\ handleCitationClick(Get(chatInterface.messages[m].citations[j], "page"))
    /\ chatInterface' = [chatInterface EXCEPT !.clicked = [m |-> m, j |-> j]]
    /\ UNCHANGED << server, calc, pdfUpload >>

\* handleCitationClick called with a page number, as its type allows
HighlightRequest(page) ==
    /\ home.selectedFile # Null
    /\ pdfViewer.mounted => ~pdfViewer.effects
    /\ handleCitationClick(JSNumber(page))
    /\ chatInterface' = IF chatInterface.mounted
                        THEN [chatInterface EXCEPT !.clicked = NoClick]
                        ELSE chatInterface
    /\ UNCHANGED << server, calc, pdfUpload >>

\* highlightPage && highlightPage > 0 && highlightPage <= numPages &&
\* highlightPage !== pageNumber
FollowsHighlight(highlightPage, viewer) ==
    /\ ~Falsy(highlightPage)
    /\ highlightPage.val > 0
    /\ highlightPage.val <= viewer.numPages
    /\ highlightPage.val # viewer.pageNumber

\* the effects of PDFViewer after a render: the highlight effect sets the
\* page, the timer effect clears its timer and sets a new one while loading
ViewerEffects ==
    /\ pdfViewer.mounted
    /\ pdfViewer.effects
    /\ LET follows == FollowsHighlight(home.highlightPage, pdfViewer)
       IN  pdfViewer' = [pdfViewer EXCEPT
                            !.pageNumber = IF follows THEN home.highlightPage.val ELSE @,
                            !.timer = pdfViewer.loading,
                            !.effects = follows]
    /\ UNCHANGED << server, calc, home, pdfUpload, chatInterface >>

\* goToNextPage; the button is disabled at the last page
goToNextPage ==
    /\ pdfViewer.mounted
    /\ ~pdfViewer.effects
    /\ ~(pdfViewer.pageNumber >= pdfViewer.numPages)
    /\ LET page == IF pdfViewer.pageNumber + 1 < pdfViewer.numPages
                   THEN pdfViewer.pageNumber + 1 ELSE pdfViewer.numPages
       IN  pdfViewer' = [pdfViewer EXCEPT !.pageNumber = page, !.navigatedTo = page,
                                          !.effects = TRUE]
    /\ UNCHANGED << server, calc, home, pdfUpload, chatInterface >>

\* goToPreviousPage; the button is disabled at page 1
goToPreviousPage ==
    /\ pdfViewer.mounted
    /\ ~pdfViewer.effects
    /\ ~(pdfViewer.pageNumber <= 1)
    /\ LET page == IF pdfViewer.pageNumber - 1 > 1 THEN pdfViewer.pageNumber - 1 ELSE 1
       IN  pdfViewer' = [pdfViewer EXCEPT !.pageNumber = page, !.navigatedTo = page,
                                          !.effects = TRUE]
    /\ UNCHANGED << server, calc, home, pdfUpload, chatInterface >>

\* handlePageInputChange with a number, after the debounce
handlePageInputChange(page) ==
    /\ pdfViewer.mounted
    /\ ~pdfViewer.effects
    /\ pdfViewer' = IF page >= 1 /\ page <= pdfViewer.numPages /\ page # pdfViewer.pageNumber
                    THEN [pdfViewer EXCEPT !.pageNumber = page, !.navigatedTo = 0,
                                           !.effects = TRUE]
                    ELSE pdfViewer
    /\ UNCHANGED << server, calc, home, pdfUpload, chatInterface >>

\* the timer of the timer effect, 10 seconds after it was set: the timeout
\* error, setLoading(false), and the render that brings in the Document.  A
\* Document that is loading is done within the 10 seconds.
LoadTimeout ==
    /\ pdfViewer.mounted
    /\ ~pdfViewer.effects
    /\ pdfViewer.timer
    /\ pdfViewer.document # "loading"
    /\ pdfViewer' = [pdfViewer EXCEPT
                        !.timeoutRaised = TRUE,
                        !.loading = FALSE,
                        !.timer = FALSE,
                        !.document = IF @ = "unmounted" THEN "loading" ELSE @,
                        !.effects = TRUE]
    /\ UNCHANGED << server, calc, home, pdfUpload, chatInterface >>

\* the Document has worked through its file: onDocumentLoadSuccess or
\* onDocumentLoadError
DocumentLoadSettle ==
    /\ pdfViewer.mounted
    /\ ~pdfViewer.effects
    /\ pdfViewer.document = "loading"
    /\ pdfViewer' = IF home.selectedFile.loads
                    THEN [pdfViewer EXCEPT !.numPages = home.selectedFile.numPages,
                                           !.loading = FALSE,
                                           !.document = "loaded",
                                           !.effects = TRUE]
                    ELSE [pdfViewer EXCEPT !.loading = FALSE,
                                           !.document = "failed",
                                           !.effects = pdfViewer.loading]
    /\ UNCHANGED << server, calc, home, pdfUpload, chatInterface >>

FrontendInit == Start(LifecycleWorkload) /\ calc = NoCall /\ FrontendStart

FrontendNext ==
    \/ \E file \in DroppedFiles, via \in {"pointer", "keyboard"} : onDrop(file, via)
    \/ \E id \in 1..MaxDrops, ok \in BOOLEAN : UploadFetchSettle(id, ok)
    \/ handleClearFile
    \/ handleSendMessage
    \/ \E result \in ChatFetchResults : ChatFetchSettle(result)
    \/ \E m \in 1..(1 + 2 * MaxSends), j \in 1..TOP_K : CitationButtonClick(m, j)
    \/ \E page \in 1..(MaxPages + 1) : HighlightRequest(page)
    \/ ViewerEffects
    \/ goToNextPage
    \/ goToPreviousPage
    \/ \E page \in 0..(MaxPages + 1) : handlePageInputChange(page)
    \/ LoadTimeout
    \/ DocumentLoadSettle

FrontendSpec == FrontendInit /\ [][FrontendNext]_vars

(***************************************************************************)
(* Properties.                                                             *)
(***************************************************************************)
UploadResponse(r) == r.pc = "done" /\ r.route = "/upload"
ChatResponse(r) == r.pc = "done" /\ r.route = "/chat"

\* the chunk lists of the documents with extractable text
DocumentChunks ==
    { chunkText(f.text, 512, 128) :
        f \in {g \in Files : ~Falsy(g) /\ g.parses /\ Len(Trim(g.text)) > 0} }

\* an entry built from a whole document: all four fields, one valid vector
\* and one citation for every chunk
CompleteSession(s) ==
    /\ DOMAIN s = {"index", "chunks", "metadata", "lastAccessed"}
    /\ s.chunks \in DocumentChunks
    /\ DOMAIN s.index.embeddings = DOMAIN s.chunks
    /\ \A i \in DOMAIN s.chunks :
          \A j \in DOMAIN s.index.embeddings[i] : s.index.embeddings[i][j].kind = "num"
    /\ DOMAIN s.metadata = DOMAIN s.chunks
    /\ s.lastAccessed >= StartTime

\* C1: ingestion is all-or-nothing.  After every step every entry of the
\* store is complete; an entry appears only in the step that answers its
\* upload with 200 and that entry's session id; a step that answers an upload
\* with a failure leaves the store as it was and returns no session id.
C1_AllOrNothing ==
    [][ /\ \A id \in DOMAIN sessions' : CompleteSession(sessions'[id])
        /\ Cardinality(DOMAIN sessions' \ DOMAIN sessions) <= 1
        /\ \A id \in DOMAIN sessions' \ DOMAIN sessions :
              /\ UploadResponse(response')
              /\ response'.status = 200
              /\ response'.body.session_id = id
        /\ (UploadResponse(response') /\ response'.status # 200) =>
              /\ sessions' = sessions
              /\ "session_id" \notin DOMAIN response'.body ]_vars

\* an upload has embedded some but not all of its chunks and nothing of it is
\* in the store
C1_Witness ==
    /\ sessions = << >>
    /\ uuidCount = 0
    /\ \E h \in 1..RaceSlots :
          /\ uploads[h].pc = "embed"
          /\ Len(uploads[h].settled) = 2
          /\ Len(uploads[h].chunks) = 3

\* C2: in every state every session has as many vectors and citations as
\* chunks, vector i is the embedding of chunk i and citation i is the page of
\* chunk i.
C2_Aligned ==
    \A id \in DOMAIN sessions :
        LET s == sessions[id]
        IN  /\ Len(s.index.embeddings) = Len(s.chunks)
            /\ Len(s.metadata) = Len(s.chunks)
            /\ \A i \in 1..Len(s.chunks) :
                  /\ s.index.embeddings[i] = EmbedOf(s.chunks[i])
                  /\ s.metadata[i] = [page |-> ((i - 1) \div 2) + 1]

\* a session of a three-chunk document is in the store
C2_Witness ==
    /\ UploadResponse(response)
    /\ response.status = 200
    /\ Len(sessions[response.body.session_id].chunks) = 3

\* C3: one run of the sweep removes exactly the sessions whose idle time
\* exceeds the timeout and leaves every other session as it was.
C3_SweepExact ==
    [][ cleanupExpiredSessions =>
          /\ DOMAIN sessions' =
                {id \in DOMAIN sessions :
                    ~(now - sessions[id].lastAccessed > 24 * 60 * 60 * 1000)}
          /\ \A id \in DOMAIN sessions' : sessions'[id] = sessions[id] ]_vars

\* one session is gone and another, idle for exactly the timeout, is present
C3_Witness ==
    /\ response = NoResponse
    /\ \E id \in DOMAIN sessions : now - sessions[id].lastAccessed = SESSION_TIMEOUT
    /\ \E id \in DOMAIN lastQuery : id \notin DOMAIN sessions

\* C4: a session leaves the store only when more than the timeout has
\* passed since its registration or its latest query, and a query that is
\* accepted for a session sets that session's lastAccessed to the current time.
C4_QueriedSessionStays ==
    [][ /\ \A id \in DOMAIN sessions :
              id \notin DOMAIN sessions' => now - lastQuery[id] > SESSION_TIMEOUT
        /\ \A c \in DOMAIN chats :
              (chats[c].pc = "idle" /\ chats'[c].pc # "idle" /\ chats'[c].req.known) =>
                  sessions'[chats'[c].req.session_id.val].lastAccessed = now ]_vars

\* a query that reached its session at the end of the timeout is answered
\* later than the timeout after the session was registered, and the session
\* is in the store
C4_Witness ==
    /\ ChatResponse(response)
    /\ response.status = 200
    /\ response.req.idle = SESSION_TIMEOUT
    /\ now - StartTime > SESSION_TIMEOUT
    /\ response.req.session_id.val \in DOMAIN sessions

\* C5: with the sweep timer firing, every session in the store is eventually
\* no longer in the store, and a sweep that runs later than the timeout after
\* a session's last access removes it.
C5_EventuallyRemoved ==
    /\ \A id \in UuidSet : (id \in DOMAIN sessions) ~> (id \notin DOMAIN sessions)
    /\ [][ cleanupExpiredSessions =>
             \A id \in DOMAIN sessions :
                 now - sessions[id].lastAccessed > SESSION_TIMEOUT =>
                     id \notin DOMAIN sessions' ]_vars

\* every session that was registered has been queried and then removed
C5_Witness ==
    /\ uuidCount = ExpiryUploads
    /\ nChats = ExpiryChats
    /\ sessions = << >>

\* C6 as stated: a query that finds its session idle for longer than the
\* timeout is answered with 404.
C6_ExpiredGetsNotFound ==
    (ChatResponse(response) /\ response.req.known
        /\ response.req.idle > SESSION_TIMEOUT) => response.status = 404

\* C6, amended: a valid query for a session that the sweep has removed is
\* answered with 404 and changes nothing; a valid query for a session that is
\* in the store is accepted and refreshes it, whatever its idle time.
C6_RemovedGetsNotFound ==
    [][ nChats' = nChats + 1 =>
          LET h   == IF response'.pc = "done" THEN response' ELSE chats'[FreeSlot(chats)]
              key == h.req.session_id.val
          IN  (ValidSessionId(h.req.session_id) /\ ValidMessage(h.req.message)) =>
                 /\ (key \in DOMAIN lastQuery /\ key \notin DOMAIN sessions) =>
                        /\ ChatResponse(response')
                        /\ response'.status = 404
                        /\ sessions' = sessions
                 /\ key \in DOMAIN sessions =>
                        /\ response'.pc # "done"
                        /\ sessions'[key].lastAccessed = now ]_vars

\* a query that found its session idle for longer than the timeout is
\* answered from it
C6_Witness ==
    /\ ChatResponse(response)
    /\ response.status = 200
    /\ response.req.idle > SESSION_TIMEOUT
    /\ Len(response.body.citations) > 0

\* C7: a session is deleted only in a step in which its current lastAccessed
\* is older than the timeout, and no chat handler moves in that step.
C7_TouchWins ==
    [][ \A id \in DOMAIN sessions :
           id \notin DOMAIN sessions' =>
              /\ now' - sessions[id].lastAccessed > SESSION_TIMEOUT
              /\ now' = now
              /\ chats' = chats
              /\ nChats' = nChats ]_vars

\* a query touched a session that was idle for longer than the timeout; a
\* sweep then removed another session and kept the touched one
C7_Witness ==
    \E c \in 1..ChatSlots :
        /\ chats[c].pc # "idle"
        /\ chats[c].req.known
        /\ chats[c].req.idle > SESSION_TIMEOUT
        /\ chats[c].req.session_id.val \in DOMAIN sessions
        /\ sessions[chats[c].req.session_id.val].lastAccessed = now
        /\ \E id \in DOMAIN lastQuery : id \notin DOMAIN sessions

\* C8: a valid query whose session id was not in the store is answered with
\* 404 without an embedder or completion call, and no handler goes on for it.
C8_UnknownSessionNotFound ==
    /\ (ChatResponse(response)
          /\ ValidSessionId(response.req.session_id) /\ ValidMessage(response.req.message)
          /\ ~response.req.known) =>
             (response.status = 404 /\ response.calls = NoCalls)
    /\ \A c \in DOMAIN chats : chats[c].pc # "idle" => chats[c].req.known

\* missing, not a string, empty or only whitespace
BlankField(x) ==
    \/ x.type = "undefined"
    \/ x.type # "string"
    \/ \A i \in 1..Len(x.val) : x.val[i] \in Whitespace

\* C9: a chat request with a missing, non-string, empty or blank session_id
\* or message is answered with 400 without an embedder or completion call,
\* and no handler goes on for it.
C9_BlankFieldsRejected ==
    /\ (ChatResponse(response)
          /\ (BlankField(response.req.session_id) \/ BlankField(response.req.message))) =>
             (response.status = 400 /\ response.calls = NoCalls)
    /\ \A c \in DOMAIN chats :
          chats[c].pc # "idle" =>
              ~BlankField(chats[c].req.session_id) /\ ~BlankField(chats[c].req.message)

ChunkAt(text, size, overlap, k) ==
    [j \in 1..(IF k * (size - overlap) + size <= Len(text)
                THEN size ELSE Len(text) - k * (size - overlap)) |->
        text[k * (size - overlap) + j]]

\* the first n elements of s, or all of s if it is shorter
Prefix(s, n) == SubSeq(s, 1, IF n < Len(s) THEN n ELSE Len(s))

RECURSIVE Concat(_)
Concat(ss) == IF ss = <<>> THEN <<>> ELSE ss[1] \o Concat(Tail(ss))

\* C11: for 0 <= overlap < size the loop of chunkText pushes at most one
\* chunk per character and is never cut short; what it returns is chunk k =
\* T[k*(size-overlap) : k*(size-overlap)+size] for every k, every chunk
\* non-empty and at most size long, the first size-overlap characters of the
\* chunks concatenated are T, and it is what chunkText gives the upload handler.
C11_ChunksReconstructText ==
    (calc.op = "chunkText" /\ 0 <= calc.overlap /\ calc.overlap < calc.chunkSize) =>
        LET step == calc.chunkSize - calc.overlap
        IN  /\ Len(calc.chunks) <= Len(calc.text)
            /\ (calc.pc = "loop" /\ calc.i < Len(calc.text)) =>
                   Len(calc.chunks) < MaxIterations
            /\ calc.pc = "returned" =>
                  /\ \A k \in 1..Len(calc.chunks) :
                        /\ calc.chunks[k] =
                              ChunkAt(calc.text, calc.chunkSize, calc.overlap, k - 1)
                        /\ Len(calc.chunks[k]) >= 1
                        /\ Len(calc.chunks[k]) <= calc.chunkSize
                  /\ Len(calc.chunks) * step >= Len(calc.text)
                  /\ Concat([k \in 1..Len(calc.chunks) |-> Prefix(calc.chunks[k], step)])
                        = calc.text
                  /\ calc.chunks = chunkText(calc.text, calc.chunkSize, calc.overlap)

\* a text of six characters was cut into chunks of three that overlap by two
C11_Witness ==
    /\ calc.op = "chunkText" /\ calc.pc = "returned"
    /\ Len(calc.text) = 6 /\ calc.chunkSize = 3 /\ calc.overlap = 2
    /\ Len(calc.chunks) = 6

\* C12: on a non-empty text chunkText with overlap >= size or overlap < 0
\* returns no chunks and does not keep pushing chunks.
C12_BadOverlapRejected ==
    (calc.op = "chunkText" /\ Len(calc.text) > 0
        /\ (calc.overlap >= calc.chunkSize \/ calc.overlap < 0)) =>
            /\ calc.pc # "returned"
            /\ Len(calc.chunks) <= Len(calc.text)

\* with overlap = size the loop has pushed more chunks than the text has
\* characters and its condition still holds
C12_Witness ==
    /\ calc.op = "chunkText" /\ calc.pc = "loop"
    /\ calc.overlap = calc.chunkSize
    /\ calc.i = 0
    /\ Len(calc.chunks) = MaxIterations
    /\ calc.i < Len(calc.text)

\* the cosine of e and q as the contract orders it: x -> sign(x) * x^2 keeps
\* the order, the common factor |q|^2 is left out, and the cosine with a zero
\* vector is 0
CosineNum(e, q) ==
    LET d == e[1].val * q[1].val + e[2].val * q[2].val
    IN  IF d >= 0 THEN d * d ELSE 0 - (d * d)
CosineDen(e) ==
    LET n == e[1].val * e[1].val + e[2].val * e[2].val
    IN  IF n = 0 THEN 1 ELSE n
CosineHigher(e1, e2, q) == CosineNum(e1, q) * CosineDen(e2) > CosineNum(e2, q) * CosineDen(e1)
CosineEqual(e1, e2, q) == CosineNum(e1, q) * CosineDen(e2) = CosineNum(e2, q) * CosineDen(e1)

\* index i ranks before index j: higher cosine, or equal cosine and i < j
RanksBefore(embeddings, q, i, j) ==
    \/ CosineHigher(embeddings[i + 1], embeddings[j + 1], q)
    \/ CosineEqual(embeddings[i + 1], embeddings[j + 1], q) /\ i < j

IsZeroVector(v) == \A j \in 1..Len(v) : v[j].kind = "num" /\ v[j].val = 0

\* C13: search returns min(k, n) distinct indices of the index, each ranking
\* before the next (descending cosine, equal cosines by ascending index) and
\* the last before every index that is not returned; none on an empty index.
C13_SearchRanked ==
    (calc.op = "search" /\ calc.pc = "returned") =>
        LET n   == Len(calc.embeddings)
            idx == calc.indices
        IN  /\ Len(idx) = (IF calc.k < n THEN calc.k ELSE n)
            /\ \A j \in 1..Len(idx) : idx[j] \in 0..(n - 1)
            /\ \A i, j \in 1..Len(idx) : i # j => idx[i] # idx[j]
            /\ \A j \in 1..(Len(idx) - 1) :
                  RanksBefore(calc.embeddings, calc.queryVector, idx[j], idx[j + 1])
            /\ \A i \in 0..(n - 1) :
                  (\A j \in 1..Len(idx) : idx[j] # i) =>
                      RanksBefore(calc.embeddings, calc.queryVector, idx[Len(idx)], i)

\* three vectors with cosines 0, 1, 1 to the query are returned as 1, 2, 0
C13_Witness ==
    /\ calc.op = "search" /\ calc.pc = "returned"
    /\ calc.embeddings = << <<Num(0), Num(1)>>, <<Num(1), Num(0)>>, <<Num(1), Num(0)>> >>
    /\ calc.queryVector = <<Num(1), Num(0)>>
    /\ calc.indices = <<1, 2, 0>>

\* C14: the score of a chunk vector and a query vector of which one is the
\* zero vector is the number 0: not NaN, no division by zero.
C14_ZeroVectorScoresZero ==
    calc.op = "search" =>
        \A i \in 1..Len(calc.embeddings) :
            (IsZeroVector(calc.embeddings[i]) \/ IsZeroVector(calc.queryVector)) =>
                LET score == ScoreOf(calc.embeddings[i], calc.queryVector, i - 1)
                IN  ~score.nan /\ score.den # 0 /\ score.sgn = 0 /\ score.num = 0

\* a search with a zero chunk vector, a non-zero chunk vector and a non-zero
\* query returned both
C14_Witness ==
    /\ calc.op = "search" /\ calc.pc = "returned"
    /\ Len(calc.embeddings) = 2
    /\ IsZeroVector(calc.embeddings[1])
    /\ ~IsZeroVector(calc.embeddings[2])
    /\ ~IsZeroVector(calc.queryVector)
    /\ Len(calc.indices) = 2

\* C15: for a non-zero query on an index with a non-zero vector, the first
\* index returned is not that of a zero vector.
C15_ZeroVectorNotFirst ==
    (calc.op = "search" /\ calc.pc = "returned"
        /\ ~IsZeroVector(calc.queryVector)
        /\ \E i \in 1..Len(calc.embeddings) : ~IsZeroVector(calc.embeddings[i])) =>
            ~IsZeroVector(calc.embeddings[calc.indices[1] + 1])

\* C16: whatever the search hands over, the indices the chat handler reads
\* chunks and metadata at are the in-range values of result.indices, in
\* order, and no value of the context is undefined.
C16_OnlyValidIndicesRead ==
    (calc.op = "filter" /\ calc.pc = "returned") =>
        LET n       == Len(calc.chunks)
            given   == IF "indices" \in DOMAIN calc.result THEN calc.result.indices ELSE <<>>
            inRange == SelectSeq(given, LAMBDA i : i \in 0..(n - 1))
        IN  /\ calc.validIndices = inRange
            /\ Len(calc.citations) = Len(inRange)
            /\ Len(inRange) > 0 =>
                   /\ Len(calc.context) = Len(inRange)
                   /\ \A j \in 1..Len(inRange) :
                         calc.context[j] = JSString(calc.chunks[inRange[j] + 1])
            /\ Len(inRange) = 0 => calc.context = NoRelevantContext

\* the search handed over -1, 1 and 3 for a document of three chunks and the
\* handler read chunk 1 only
C16_Witness ==
    /\ calc.op = "filter" /\ calc.pc = "returned"
    /\ Len(calc.chunks) = 3
    /\ "indices" \in DOMAIN calc.result
    /\ calc.result.indices = << 0 - 1, 1, 3 >>
    /\ calc.validIndices = << 1 >>

\* C17: in a chat that reached the completion call, context and citations
\* have one entry per ranked valid index, in rank order: context j is chunk
\* i_j and citation j is floor(i_j / 2) + 1; the citations of a 200 response
\* are positive page numbers.
C17_CitationsFollowContext ==
    /\ \A c \in DOMAIN chats :
          chats[c].pc = "completion" =>
              LET h == chats[c]
              IN  /\ Len(h.validIndices) > 0
                  /\ Len(h.context) = Len(h.validIndices)
                  /\ Len(h.citations) = Len(h.validIndices)
                  /\ \A j \in 1..Len(h.validIndices) :
                        /\ h.context[j] = JSString(h.chunks[h.validIndices[j] + 1])
                        /\ h.citations[j] = (h.validIndices[j] \div 2) + 1
    /\ (ChatResponse(response) /\ response.status = 200) =>
          /\ Len(response.body.citations) \in 1..3
          /\ \A j \in 1..Len(response.body.citations) : response.body.citations[j] >= 1

\* a chat on a three-chunk document is answered with the pages 1, 2, 1 of the
\* chunks ranked 0, 2, 1
C17_Witness ==
    /\ ChatResponse(response)
    /\ response.status = 200
    /\ response.body.citations = << 1, 2, 1 >>

\* the handles getEmbedder has in play: the one kept in embedder and the
\* pipelines its callers wait for
WaitingPipelines(handlers) ==
    {handlers[h].pipeline : h \in {x \in DOMAIN handlers : handlers[x].pc = "getEmbedder"}}

HandlesInPlay ==
    (IF embedder = 0 THEN {} ELSE {embedder})
        \cup WaitingPipelines(uploads) \cup WaitingPipelines(chats)

\* C18: the embedder handle is initialised at most once: the callers of
\* getEmbedder that arrive before the first pipeline has settled wait for one
\* and the same pipeline, and that pipeline is the handle every caller gets.
C18_InitialisedOnce == Cardinality(HandlesInPlay) <= 1

\* two uploads call getEmbedder before the handle is there
C18_Witness ==
    /\ embedder = 0
    /\ uploads[1].pc = "getEmbedder"
    /\ uploads[2].pc = "getEmbedder"

\* Number.isFinite(x) of a component
IsFinite(x) == x.kind = "num"
FiniteVector(v) == \A j \in 1..Len(v) : IsFinite(v[j])

\* C19: every vector stored in the index of a session has finite components
\* only, and so has every query vector the chat handler has passed to
\* index.search.
C19_OnlyFiniteVectors ==
    /\ \A id \in DOMAIN sessions :
          \A i \in 1..Len(sessions[id].index.embeddings) :
              FiniteVector(sessions[id].index.embeddings[i])
    /\ \A c \in DOMAIN chats :
          chats[c].pc = "completion" => FiniteVector(chats[c].queryVector)

\* the embedder answered the message of a chat with a NaN component and the
\* handler went on to the search and the completion call
C19_Witness ==
    \E c \in DOMAIN chats :
        /\ chats[c].pc = "completion"
        /\ isNaN(chats[c].queryVector[1])
        /\ Len(chats[c].validIndices) > 0

\* the handler waits for an embedder call or for the completion call
AwaitsProvider(handler) == handler.pc \in {"embed", "embedQuery", "completion"}

\* C20: a request that waits for the embedder or for the completion provider
\* is answered in the end, whether or not the call ever settles: its handler
\* responds and returns.
C20_EveryRequestAnswered ==
    /\ \A h \in 1..RaceSlots : AwaitsProvider(uploads[h]) ~> ~AwaitsProvider(uploads[h])
    /\ \A c \in 1..ChatSlots : AwaitsProvider(chats[c]) ~> ~AwaitsProvider(chats[c])

\* a chat waits for the completion call while the clock has moved on since
\* its session was last touched
C20_Witness ==
    \E c \in DOMAIN chats :
        /\ chats[c].pc = "completion"
        /\ ticks > 0
        /\ \E id \in DOMAIN sessions : now > sessions[id].lastAccessed

\* the pipeline of getEmbedder or an embedder call of the upload in slot h fails
UploadProviderFails(h) ==
    \/ UploadPipelineSettle(h, FALSE)
    \/ /\ uploads[h].pc = "embed"
       /\ \E i \in PendingChunks(uploads[h]) : UploadEmbedReject(h, i)

\* the pipeline, the embedder call or the completion call of the chat in slot
\* c fails
ChatProviderFails(c) ==
    \/ ChatPipelineSettle(c, FALSE)
    \/ QueryEmbedReject(c)
    \/ CompletionSettle(c, FALSE)

\* the response r is an error response with a message that closes a request
\* after the model calls made so far
ErrorResponse(r, calls) ==
    /\ r.pc = "done"
    /\ r.status = 500
    /\ DOMAIN r.body = {"error"}
    /\ r.body.error # ""
    /\ r.calls = calls

CallsOf(handler) == IF "calls" \in DOMAIN handler THEN handler.calls ELSE NoCalls

\* C21: the step in which the embedder initialisation, an embedder call or
\* the completion call of a request fails sends one 500 response with an
\* error message, makes no further model call for the request, ends its
\* handler, and leaves the store, the handle and every other handler as they
\* are, so the server goes on serving.
C21_FailureAnswered ==
    [][ /\ \A h \in 1..RaceSlots :
              UploadProviderFails(h) =>
                  /\ ErrorResponse(response', CallsOf(uploads[h]))
                  /\ response'.route = "/upload"
                  /\ uploads' = [uploads EXCEPT ![h] = Idle]
                  /\ chats' = chats
                  /\ pipelineCalls' = pipelineCalls
                  /\ sessions' = sessions /\ embedder' = embedder
        /\ \A c \in 1..ChatSlots :
              ChatProviderFails(c) =>
                  /\ ErrorResponse(response', CallsOf(chats[c]))
                  /\ response'.route = "/chat"
                  /\ chats' = [chats EXCEPT ![c] = Idle]
                  /\ uploads' = uploads
                  /\ pipelineCalls' = pipelineCalls
                  /\ sessions' = sessions /\ embedder' = embedder ]_vars

\* the completion call of a chat has failed, the chat is answered with 500,
\* the session it asked about is still there and uploads are still to come
C21_Witness ==
    /\ ChatResponse(response)
    /\ response.status = 500
    /\ response.calls = [embed |-> 1, completion |-> 1]
    /\ \E id \in DOMAIN sessions : response.req.session_id = JSString(id)
    /\ nUploads < workload.uploads

\* the response r answers an upload whose file is above the size limit
OversizeResponse(r) == UploadResponse(r) /\ "oversize" \in DOMAIN r.req

\* C22: an upload whose file is above the size limit is answered with a
\* structured PayloadTooLarge error, a kind and a message, and without a
\* model call.
C22_OversizeRejected ==
    OversizeResponse(response) =>
        /\ response.status >= 400
        /\ DOMAIN response.body = {"kind", "message"}
        /\ response.body.kind = "PayloadTooLarge"
        /\ response.calls = NoCalls

\* a file above the limit is turned away while a session is in the store and
\* no handler is running
C22_Witness ==
    /\ OversizeResponse(response)
    /\ DOMAIN sessions # {}
    /\ \A h \in DOMAIN uploads : uploads[h].pc = "idle"

\* chunks, vectors and citation metadata of a session
SessionContent(session) ==
    [index |-> session.index, chunks |-> session.chunks, metadata |-> session.metadata]

\* C23: no step changes the chunks, the vectors or the citation metadata of
\* a session that stays in the store: a chat with its search, another upload
\* and the sweep leave them as they were registered; lastAccessed is the
\* only field that changes.
C23_SessionContentFrozen ==
    [][ \A id \in DOMAIN sessions :
            id \in DOMAIN sessions' =>
                /\ SessionContent(sessions'[id]) = SessionContent(sessions[id])
                /\ DOMAIN sessions'[id] = DOMAIN sessions[id] ]_vars

\* a chat on the first document has searched its index and has been answered
\* after a second document was registered and the clock moved on: the first
\* session was touched and still has its three chunks, vectors and pages
C23_Witness ==
    /\ ChatResponse(response)
    /\ response.status = 200
    /\ Cardinality(DOMAIN sessions) = 2
    /\ \E id \in DOMAIN sessions :
          /\ response.req.session_id = JSString(id)
          /\ Len(sessions[id].chunks) = 3
          /\ Len(sessions[id].index.embeddings) = 3
          /\ Len(sessions[id].metadata) = 3
          /\ sessions[id].lastAccessed > StartTime

Min(a, b) == IF a <= b THEN a ELSE b

\* C26: every session in the store has at least one chunk and one vector
\* for every chunk; a chat that has searched the index of a session goes on
\* with min(3, number of chunks) chunks and as many citations, never with
\* the sentinel context, and a 200 answer never has an empty citation list.
C26_StoredSessionsHaveContext ==
    /\ \A id \in DOMAIN sessions :
          /\ Len(sessions[id].chunks) >= 1
          /\ Len(sessions[id].index.embeddings) = Len(sessions[id].chunks)
    /\ \A c \in DOMAIN chats :
          chats[c].pc = "completion" =>
              /\ Len(chats[c].validIndices) = Min(TOP_K, Len(chats[c].chunks))
              /\ Len(chats[c].citations) = Len(chats[c].validIndices)
              /\ Len(chats[c].validIndices) >= 1
              /\ Len(chats[c].context) = Len(chats[c].validIndices)
    /\ (ChatResponse(response) /\ response.status = 200) =>
          response.body.citations # <<>>

\* a chat on a document of one chunk goes on to the completion call with that
\* chunk and its page
C26_Witness ==
    \E c \in DOMAIN chats :
        /\ chats[c].pc = "completion"
        /\ Len(chats[c].chunks) = 1
        /\ chats[c].validIndices = << 0 >>
        /\ chats[c].citations = << 1 >>

\* C27: when the embedder call or the completion call of a chat on a stored
\* session fails, the chat is answered with 500 and the store stays as it
\* is; the session still carries the lastAccessed the request gave it on
\* arrival, and it is in the store as long as no more than the timeout has
\* passed since that arrival.
C27_FailedChatStillTouches ==
    [][ \A c \in 1..ChatSlots :
            (chats[c].pc \in {"embedQuery", "completion"} /\ chats[c].req.known
                /\ ChatProviderFails(c)) =>
                LET id == chats[c].req.session_id.val
                IN  /\ response'.status = 500
                    /\ sessions' = sessions
                    /\ uploadTracker' = uploadTracker
                    /\ uuidCount' = uuidCount
                    /\ id \in DOMAIN sessions =>
                          sessions'[id].lastAccessed = lastQuery[id]
                    /\ now - lastQuery[id] <= SESSION_TIMEOUT => id \in DOMAIN sessions'
      ]_vars

\* a chat reached its session at the end of the timeout, its completion call
\* failed later than the timeout after the registration, and the session is
\* in the store with the time of the chat's arrival
C27_Witness ==
    /\ ChatResponse(response)
    /\ response.status = 500
    /\ response.calls.completion = 1
    /\ response.req.known
    /\ response.req.idle = SESSION_TIMEOUT
    /\ now - StartTime > SESSION_TIMEOUT
    /\ response.req.session_id.val \in DOMAIN sessions
    /\ sessions[response.req.session_id.val].lastAccessed = StartTime + SESSION_TIMEOUT

\* the uploads of a client that count in the window that ends at t
CountedUploads(ip, t) == RecentUploads(uploadTracker[ip], t)

\* C28: an upload that arrives at the handler while its client has fewer
\* than five counted uploads in the window is counted at once, whatever its
\* file and whatever becomes of it; one that arrives with five counted is
\* answered with 429, whatever its file, and is not counted; and no later
\* step of a handler, failure or success, takes a count back.
C28_CountedBeforeValidation ==
    [][ /\ \A h \in 1..RaceSlots, ip \in ClientIPs, file \in Files :
              UploadRequest(h, ip, file) =>
                  IF Len(CountedUploads(ip, now)) < UPLOAD_RATE_LIMIT
                  THEN /\ uploadTracker'[ip] = Append(CountedUploads(ip, now), now)
                       /\ ~(UploadResponse(response') /\ response'.status = 429)
                       /\ (Falsy(file) \/ file.mimetype # PDF) =>
                             (UploadResponse(response') /\ response'.status = 400)
                  ELSE /\ uploadTracker' = uploadTracker
                       /\ UploadResponse(response')
                       /\ response'.status = 429
                       /\ uploads' = uploads
        /\ nUploads' = nUploads => uploadTracker' = uploadTracker ]_vars

\* five uploads of one client have failed, no session was ever registered,
\* and the sixth upload of the client in the same minute is answered with 429
C28_Witness ==
    /\ UploadResponse(response)
    /\ response.status = 429
    /\ response.req.ip = FirstClient
    /\ nUploads = 6
    /\ uuidCount = 0
    /\ nParsed = 1
    /\ Len(CountedUploads(FirstClient, now)) = 5

\* C24: PDFUpload has at most one uploadToAPI call in flight, and no call is
\* in flight any more once a file is selected: no two overlapping uploads
\* reach onFileSelect.
C24_OneUploadInFlight ==
    /\ Cardinality(DOMAIN pdfUpload.pending) <= 1
    /\ home.selectedFile # Null => DOMAIN pdfUpload.pending = {}

\* a second PDF was dropped while the upload of the first was pending
C24_Witness ==
    /\ pdfUpload.mounted
    /\ pdfUpload.isUploading
    /\ DOMAIN pdfUpload.pending = {1, 2}

\* C25: every citation button of a message shows the page number the server
\* returned at that place of its citations array, and after a click on a
\* button highlightPage is that page number.
C25_CitationsCarryPages ==
    chatInterface.mounted =>
        /\ \A m \in DOMAIN chatInterface.messages :
              LET message == chatInterface.messages[m]
              IN  /\ Len(message.citations) = Len(message.cited)
                  /\ \A j \in DOMAIN message.cited :
                        CitationLabel(message.citations[j]) = << "Page", message.cited[j] >>
        /\ chatInterface.clicked # NoClick =>
              home.highlightPage =
                  chatInterface.messages[chatInterface.clicked.m].cited[chatInterface.clicked.j]

\* an answer that cites the pages 1, 2, 1 is shown and one of its buttons
\* has been clicked
C25_Witness ==
    /\ chatInterface.mounted
    /\ chatInterface.clicked # NoClick
    /\ chatInterface.messages[chatInterface.clicked.m].cited
          = << JSNumber(1), JSNumber(2), JSNumber(1) >>

\* C29: after a press of next or previous, and the effects that follow it,
\* a PDFViewer with one file shows the page the press moved to, whatever
\* highlightPage is; that page, and the page shown once the document is
\* loaded, are pages of the document.
C29_NavigationSticks ==
    (pdfViewer.mounted /\ ~pdfViewer.replaced) =>
        /\ (pdfViewer.navigatedTo # 0 /\ ~pdfViewer.effects) =>
              pdfViewer.pageNumber = pdfViewer.navigatedTo
        /\ pdfViewer.navigatedTo # 0 => pdfViewer.navigatedTo \in 1..pdfViewer.numPages
        /\ (pdfViewer.document = "loaded" /\ ~pdfViewer.effects) =>
              pdfViewer.pageNumber \in 1..pdfViewer.numPages

\* highlightPage is page 2 of a loaded document of three pages and next was
\* pressed on it: the press moved to page 3
C29_Witness ==
    /\ pdfViewer.mounted
    /\ pdfViewer.document = "loaded"
    /\ pdfViewer.numPages = MaxPages
    /\ home.highlightPage = JSNumber(2)
    /\ pdfViewer.navigatedTo = 3

\* C30: while PDFViewer shows a file that loads, the timeout error has not
\* been raised, and as long as loading is true the Document is rendered and
\* at work on the file.
C30_NoTimeoutForFastLoad ==
    (pdfViewer.mounted /\ home.selectedFile.loads) =>
        /\ ~pdfViewer.timeoutRaised
        /\ (pdfViewer.loading /\ ~pdfViewer.effects) => pdfViewer.document = "loading"

\* a file of three pages has loaded, within its 10 seconds, after the
\* timeout error was raised for it
C30_Witness ==
    /\ pdfViewer.mounted
    /\ home.selectedFile.loads
    /\ pdfViewer.document = "loaded"
    /\ pdfViewer.numPages = MaxPages
    /\ pdfViewer.timeoutRaised

====
